---- MODULE Spec2Model ----
(***************************************************************************)
(* Model of the DatoCMS "Locale Duplicate" plugin: the duplication engine  *)
(* duplicateLocaleContent, the ID-stripping transform removeBlockItemIds,  *)
(* and the configuration screen that starts a run, folds its progress      *)
(* events and lets the user request an abort.                              *)
(*                                                                         *)
(* JavaScript runs every handler to its next await without interruption,   *)
(* so each action below is one such synchronous stretch of code.           *)
(***************************************************************************)
EXTENDS Integers, Sequences, FiniteSets, TLC

(***************************************************************************)
(* Bounds of the model.                                                    *)
(***************************************************************************)
\* number of models the host's model listing returns
MaxModels == 4
\* largest number of records the host delivers in one run
MaxRecords == 3
\* largest number of failing host calls (rejections, throws) in one run
MaxFaults == 2

(***************************************************************************)
(* JSON values.  A node is a record tagged by k; an object carries its     *)
(* properties as a function from keys to nodes, an array its elements as a *)
(* sequence.  Undefined is the value an id is cleared to.                  *)
(***************************************************************************)
Str(s) == [k |-> "str", s |-> s]
JNull == [k |-> "null"]
Undefined == [k |-> "undefined"]
Arr(es) == [k |-> "arr", es |-> es]
Obj(ps) == [k |-> "obj", ps |-> ps]
EmptyProps == [key \in {} |-> JNull]

\* key in obj
HasKey(node, key) == node.k = "obj" /\ key \in DOMAIN node.ps
\* obj.type === tag
HasType(node, tag) == HasKey(node, "type") /\ node.ps["type"] = Str(tag)
\* obj[key] = value, adding the key when it is absent
SetKey(ps, key, value) ==
  [x \in DOMAIN ps \cup {key} |-> IF x = key THEN value ELSE ps[x]]

(***************************************************************************)
(* removeBlockItemIds (ConfigScreen.tsx): walks the value, sets the id of  *)
(* a block's item and of an item node to undefined, and recurses into      *)
(* every property.  The code mutates in place and returns its argument;    *)
(* the operator returns the value the argument holds after the call.       *)
(***************************************************************************)
\* variant that forgets the nested item of a block
RECURSIVE removeBlockItemIdsItemOnly(_)
removeBlockItemIdsItemOnly(obj) ==
  IF obj.k = "arr"
    THEN Arr([n \in DOMAIN obj.es |-> removeBlockItemIdsItemOnly(obj.es[n])])
  ELSE IF obj.k = "obj"
    THEN LET p1 == IF HasType(obj, "item") /\ HasKey(obj, "id")
                     THEN [obj.ps EXCEPT !["id"] = Undefined]
                     ELSE obj.ps
         IN  Obj([key \in DOMAIN p1 |-> removeBlockItemIdsItemOnly(p1[key])])
  ELSE obj

RECURSIVE removeBlockItemIds(_)
removeBlockItemIds(obj) ==
  IF obj.k = "arr"
    THEN Arr([n \in DOMAIN obj.es |-> removeBlockItemIds(obj.es[n])])
  ELSE IF obj.k = "obj"
    THEN LET typedObj == obj.ps
             p1 == IF /\ HasType(obj, "block")
                      /\ HasKey(obj, "item")
                      /\ typedObj["item"].k \in {"obj", "arr"}
                      /\ HasKey(typedObj["item"], "id")
                     THEN [typedObj EXCEPT !["item"] =
                             Obj([typedObj["item"].ps EXCEPT !["id"] = Undefined])]
                     ELSE typedObj
             p2 == IF HasType(obj, "item") /\ HasKey(obj, "id")
                     THEN [p1 EXCEPT !["id"] = Undefined]
                     ELSE p1
         IN  Obj([key \in DOMAIN p2 |-> removeBlockItemIds(p2[key])])
  ELSE obj

\* variant without the recursion into arrays and properties
removeBlockItemIdsTopOnly(obj) ==
  IF obj.k = "obj"
    THEN LET typedObj == obj.ps
             p1 == IF /\ HasType(obj, "block")
                      /\ HasKey(obj, "item")
                      /\ typedObj["item"].k \in {"obj", "arr"}
                      /\ HasKey(typedObj["item"], "id")
                     THEN [typedObj EXCEPT !["item"] =
                             Obj([typedObj["item"].ps EXCEPT !["id"] = Undefined])]
                     ELSE typedObj
         IN  Obj(IF HasType(obj, "item") /\ HasKey(obj, "id")
                   THEN [p1 EXCEPT !["id"] = Undefined]
                   ELSE p1)
  ELSE obj

\* removeBlockItemIdsMutable (fieldUtils.ts): the same code under another name
removeBlockItemIdsMutable(obj) == removeBlockItemIds(obj)

(***************************************************************************)
(* removeBlockItemIdsImmutable (fieldUtils.ts) and removeBlockItemIds of   *)
(* the field extension: returns primitives and null as they are, maps      *)
(* arrays, and rebuilds every object from its entries other than 'id'.     *)
(***************************************************************************)
\* variant that does not look inside an object it took an id from
RECURSIVE removeBlockItemIdsStopsAtId(_)
removeBlockItemIdsStopsAtId(value) ==
  IF value.k = "arr"
    THEN Arr([n \in DOMAIN value.es |-> removeBlockItemIdsStopsAtId(value.es[n])])
  ELSE IF value.k = "obj"
    THEN IF "id" \in DOMAIN value.ps
           THEN Obj([key \in DOMAIN value.ps \ {"id"} |-> value.ps[key]])
           ELSE Obj([key \in DOMAIN value.ps |->
                       removeBlockItemIdsStopsAtId(value.ps[key])])
  ELSE value

RECURSIVE removeBlockItemIdsImmutable(_)
removeBlockItemIdsImmutable(value) ==
  IF value.k = "arr"
    THEN Arr([n \in DOMAIN value.es |-> removeBlockItemIdsImmutable(value.es[n])])
  ELSE IF value.k = "obj"
    THEN Obj([key \in DOMAIN value.ps \ {"id"} |->
                removeBlockItemIdsImmutable(value.ps[key])])
  ELSE value

(***************************************************************************)
(* The update map of one record (ConfigScreen.tsx, steps 4 to 7).          *)
(***************************************************************************)
ReservedKeys == {"id", "type", "meta", "created_at", "updated_at", "is_valid", "item_type"}
\* keys of the model's records that start with '_'
UnderscoreKeys == {"_status"}

\* variant without the test for a leading underscore
IsSkippedKeyListOnly(fieldKey) == fieldKey \in ReservedKeys

\* fieldKey.startsWith('_') || [...].includes(fieldKey)
IsSkippedKey(fieldKey) == fieldKey \in UnderscoreKeys \/ fieldKey \in ReservedKeys

\* fieldValue && typeof fieldValue === 'object' && Object.keys(fieldValue).includes(sourceLocale)
HasLocale(fieldValue, locale) == fieldValue.k = "obj" /\ locale \in DOMAIN fieldValue.ps

\* the order in which Object.entries yields the attributes of a record
RECURSIVE KeyOrder(_)
KeyOrder(keys) ==
  IF keys = {} THEN <<>>
  ELSE LET key == CHOOSE x \in keys : TRUE
       IN  <<key>> \o KeyOrder(keys \ {key})

\* variant that copies a field whether or not it holds the source locale
UpdateFieldAlways(updates, fieldKey, fieldValue, src, tgt) ==
  IF IsSkippedKey(fieldKey) THEN updates
  ELSE IF fieldValue.k = "obj"
    THEN removeBlockItemIds(
           Obj(SetKey(updates.ps, fieldKey,
                      Obj(SetKey(fieldValue.ps, tgt,
                                 IF src \in DOMAIN fieldValue.ps
                                   THEN fieldValue.ps[src] ELSE Undefined)))))
    ELSE updates

\* one turn of the loop over Object.entries(record.attributes)
UpdateField(updates, fieldKey, fieldValue, src, tgt) ==
  IF IsSkippedKey(fieldKey) THEN updates
  ELSE IF HasLocale(fieldValue, src)
    THEN removeBlockItemIds(
           Obj(SetKey(updates.ps, fieldKey,
                      Obj(SetKey(fieldValue.ps, tgt, fieldValue.ps[src])))))
    ELSE updates

RECURSIVE BuildFrom(_, _, _, _, _)
BuildFrom(updates, order, attributes, src, tgt) ==
  IF order = <<>> THEN updates
  ELSE BuildFrom(UpdateField(updates, Head(order), attributes[Head(order)], src, tgt),
                 Tail(order), attributes, src, tgt)

\* let updates = {}; for (...) {...}
BuildUpdates(attributes, src, tgt) ==
  BuildFrom(Obj(EmptyProps), KeyOrder(DOMAIN attributes), attributes, src, tgt)

(***************************************************************************)
(* The host's content: the values pagination can deliver.                  *)
(***************************************************************************)
currentSiteLocales == <<"en", "fr", "de">>

\* { type: "block", item: { id, title } }
BlockNode == Obj([type |-> Str("block"),
                  item |-> Obj([id |-> Str("b1"), title |-> Str("Hello")])])
\* { type: "item", id, attributes }
ItemNode == Obj([type |-> Str("item"), id |-> Str("i1"), attributes |-> Str("x")])
\* a block whose item is itself tagged and holds a further block in an array
NestedBlock == Obj([type |-> Str("block"), id |-> Str("outer"),
                    item |-> Obj([type |-> Str("item"), id |-> Str("b2"),
                                  children |-> Arr(<<BlockNode, Str("t")>>)])])
\* an untagged object with an id of its own, wrapping an item node
Wrapper == Obj([id |-> Str("keep"), value |-> ItemNode])
\* a block without an item, and a block whose item has no id
BareBlock == Obj([type |-> Str("block"), id |-> Str("b3")])
BlockNoId == Obj([type |-> Str("block"), item |-> Obj([title |-> Str("T")])])

\* attribute maps of the records the host can return
RecordShapes ==
  { \* the scenario of the specification: a plain localized title
    [title |-> Obj([en |-> Str("Hello"), fr |-> Str("Bonjour")]),
     slug |-> Str("hello")],
    \* no field holds the source locale
    [title |-> Obj([fr |-> Str("Bonjour")]), slug |-> Str("hello"), body |-> JNull],
    \* only reserved attributes hold the source locale
    [meta |-> Obj([en |-> ItemNode]), _status |-> Obj([en |-> Str("draft")]),
     item_type |-> Obj([en |-> BlockNode]), title |-> Arr(<<Str("en")>>)],
    \* structured content in every locale, next to every reserved attribute,
    \* each of them an object that holds the locales
    [body |-> Obj([en |-> Arr(<<BlockNode, ItemNode>>), fr |-> ItemNode, de |-> BlockNode]),
     meta |-> Obj([en |-> Str("m")]),
     id |-> Obj([en |-> Str("r"), fr |-> Str("r"), de |-> Str("r")]),
     type |-> Obj([en |-> Str("item"), fr |-> Str("item"), de |-> Str("item")]),
     created_at |-> Obj([en |-> Str("c"), fr |-> Str("c"), de |-> Str("c")]),
     updated_at |-> Obj([en |-> ItemNode, fr |-> ItemNode, de |-> ItemNode]),
     is_valid |-> Obj([en |-> JNull, fr |-> JNull, de |-> JNull]),
     item_type |-> Obj([en |-> BlockNode, fr |-> BlockNode, de |-> BlockNode]),
     _status |-> Obj([en |-> Str("draft"), fr |-> Str("draft"), de |-> Str("draft")])],
    \* two localized fields, one of them without the source locale
    [title |-> Obj([en |-> NestedBlock]), body |-> Obj([de |-> BlockNode]),
     _status |-> Obj([en |-> BlockNode])],
    \* nested and untagged nodes, a null source value
    [title |-> Obj([en |-> Wrapper, fr |-> BareBlock]),
     body |-> Obj([en |-> JNull, fr |-> BlockNoId])] }

(***************************************************************************)
(* Models and records of the host.                                         *)
(***************************************************************************)
\* ids of the models flagged modular_block
BlockModelIds == {2}
ModelName(id) == <<"Model", id>>
\* client.itemTypes.list(): the models in the host's order
allModels ==
  [n \in 1..MaxModels |->
     [id |-> n, name |-> ModelName(n), modular_block |-> (n \in BlockModelIds)]]
\* id of the record pagination yields at a position of a model
RecordId(modelId, position) == modelId * 10 + position

\* arguments the engine can receive as selectedModelIds: omitted, or a list
SelectionChoices ==
  {[given |-> FALSE, ids |-> {}]} \cup
  {[given |-> TRUE, ids |-> S] :
     S \in {{}, {1}, {2}, {1, 2}, {2, MaxModels}, {1, 2, MaxModels}}}

(***************************************************************************)
(* Progress events.  An absent optional field holds the matching No value; *)
(* the timestamp, which no code reads back, is left out, and a message     *)
(* stands for its text without the interpolated count, name or error.      *)
(***************************************************************************)
NoProgress == -1
NoId == 0
NoName == <<>>

ProgressUpdate(message, type, progress, modelId, modelName, recordId) ==
  [message |-> message, type |-> type, progress |-> progress,
   modelId |-> modelId, modelName |-> modelName, recordId |-> recordId]

FoundEvent == ProgressUpdate("Found models to process", "info", 5, NoId, NoName, NoId)
AbortedEvent(progress) ==
  ProgressUpdate("Process aborted by user", "error", progress, NoId, NoName, NoId)
ProcessingEvent(model, progress) ==
  ProgressUpdate("Processing model", "info", progress, model.id, model.name, NoId)
RecordSuccessEvent(model, recordId) ==
  ProgressUpdate("", "success", NoProgress, model.id, model.name, recordId)
RecordErrorEvent(model, recordId) ==
  ProgressUpdate("Failed to update record", "error", NoProgress, model.id, model.name, recordId)
ModelErrorEvent(model) ==
  ProgressUpdate("Error processing model", "error", NoProgress, model.id, model.name, NoId)
VerifyingEvent == ProgressUpdate("Verifying content migration...", "info", 100, NoId, NoName, NoId)
CompletedEvent ==
  ProgressUpdate("Migration completed successfully!", "success", NoProgress, NoId, NoName, NoId)
MigrationErrorEvent ==
  ProgressUpdate("Error during migration", "error", NoProgress, NoId, NoName, NoId)
AbortingEvent ==
  ProgressUpdate("Aborting process...", "error", NoProgress, NoId, NoName, NoId)

(***************************************************************************)
(* State.                                                                  *)
(***************************************************************************)
VARIABLES
  pc,                \* where duplicateLocaleContent is suspended
  sourceLocale,      \* ConfigScreen state
  targetLocale,
  isProcessing,
  isAborting,
  showSummary,
  abortProcessRef,   \* abortProcessRef.current, the abort flag
  abortConfirmOpen,  \* the "Abort Process" confirmation is on screen
  progressUpdates,   \* the consumer's log
  progressPercentage,
  statsRef,          \* statsRef.current
  selectedModelIds,  \* argument of the run
  models,            \* the filtered model list of the run
  i,                 \* index of the current model, 0-based
  position,          \* records of the current model delivered so far
  inFlight,          \* the outstanding client.items.update call, if any
  emitted,           \* events the engine passed to onProgress in this run
  paginateCalls,     \* model ids rawListPagedIterator was called for
  updateCalls,       \* client.items.update calls issued, in order
  updateResults,     \* how the client.items.update calls settled, in order
  emptyRecords,      \* ids of the records whose update map came out empty
  faults,            \* failing host calls in this run
  value,             \* a JSON value handed to the ID-stripping functions
  mutated,           \* what removeBlockItemIdsMutable returned, call after call
  copied,            \* what removeBlockItemIdsImmutable returned, call after call
  heap,              \* the objects and arrays in memory, by address
  mutatedRef,        \* the references removeBlockItemIdsMutable returned
  copiedRef,         \* the references removeBlockItemIdsImmutable returned
  formValues,        \* the record form of the host: its locales and the field
  ctx,               \* the ctx object the field extension was last rendered with
  render,            \* what that render of FieldExtension showed and captured
  copyLoop,          \* the copy handler suspended on ctx.setFieldValue, if any
  setCalls,          \* locales ctx.setFieldValue was called for by the last click
  notices            \* the notices shown, in order

vars == <<pc, sourceLocale, targetLocale, isProcessing, isAborting, showSummary,
          abortProcessRef, abortConfirmOpen, progressUpdates, progressPercentage,
          statsRef, selectedModelIds, models, i, position, inFlight, emitted,
          paginateCalls, updateCalls, updateResults, emptyRecords, faults,
          value, mutated, copied, heap, mutatedRef, copiedRef,
          formValues, ctx, render, copyLoop, setCalls, notices>>

fieldVars == <<formValues, ctx, render, copyLoop, setCalls, notices>>

\* the field extension is not mounted
NoLocale == ""
NoForm == [internalLocales |-> <<>>, field |-> EmptyProps]
NoCtx == [formValues |-> NoForm, locale |-> NoLocale]
NoRender == [visible |-> FALSE, mainLocale |-> NoLocale, isAtMainLocale |-> FALSE]
NoLoop == [handler |-> "none", mainLocaleValue |-> Undefined, rest |-> <<>>]

stripVars == <<value, mutated, copied, heap, mutatedRef, copiedRef>>

\* no object has been built
EmptyHeap == [at \in {} |-> JNull]

uiVars == <<sourceLocale, targetLocale, isProcessing, isAborting, showSummary,
            abortProcessRef, abortConfirmOpen>>

NoCall == [recordId |-> NoId, modelId |-> NoId, attributes |-> EmptyProps,
           updates |-> Obj(EmptyProps)]

InitialStats == [totalModels |-> 0, totalRecords |-> 0, successfulRecords |-> 0,
                 failedRecords |-> 0, modelStats |-> <<>>]

(***************************************************************************)
(* The consumer: handleProgress and updateStatistics.                      *)
(***************************************************************************)
\* variant that stores the name of every update it sees
RegisterModelRenames(stats, update) ==
  [stats EXCEPT
     !.modelStats =
        [m \in DOMAIN stats.modelStats \cup {update.modelId} |->
           IF m \in DOMAIN stats.modelStats
             THEN IF m = update.modelId
                    THEN [stats.modelStats[m] EXCEPT !.name = update.modelName]
                    ELSE stats.modelStats[m]
             ELSE [success |-> 0, error |-> 0, total |-> 0,
                   name |-> update.modelName, processedRecordIds |-> {}]],
     !.totalModels = Cardinality(DOMAIN stats.modelStats \cup {update.modelId})]

\* if (!stats.modelStats[update.modelId]) { ... }: a model seen for the first
\* time gets its entry, and totalModels is the number of entries
RegisterModel(stats, update) ==
  IF update.modelId \in DOMAIN stats.modelStats THEN stats
  ELSE LET registered ==
             [m \in DOMAIN stats.modelStats \cup {update.modelId} |->
                IF m = update.modelId
                  THEN [success |-> 0, error |-> 0, total |-> 0,
                        name |-> update.modelName, processedRecordIds |-> {}]
                  ELSE stats.modelStats[m]]
       IN  [stats EXCEPT !.modelStats = registered,
                         !.totalModels = Cardinality(DOMAIN registered)]

\* variant that leaves the total of the model as it is
CountedWithoutModelTotal(stats, update, type) ==
  [stats EXCEPT
     !.totalRecords = @ + 1,
     !.successfulRecords = IF type = "success" THEN @ + 1 ELSE @,
     !.failedRecords = IF type = "error" THEN @ + 1 ELSE @,
     !.modelStats[update.modelId] =
        [@ EXCEPT
           !.processedRecordIds = @ \cup {update.recordId},
           !.success = IF type = "success" THEN @ + 1 ELSE @,
           !.error = IF type = "error" THEN @ + 1 ELSE @]]

\* the counters of one record, by the type of the update
Counted(stats, update, type) ==
  [stats EXCEPT
     !.totalRecords = @ + 1,
     !.successfulRecords = IF type = "success" THEN @ + 1 ELSE @,
     !.failedRecords = IF type = "error" THEN @ + 1 ELSE @,
     !.modelStats[update.modelId] =
        [@ EXCEPT
           !.processedRecordIds = @ \cup {update.recordId},
           !.total = @ + 1,
           !.success = IF type = "success" THEN @ + 1 ELSE @,
           !.error = IF type = "error" THEN @ + 1 ELSE @]]

\* variant that does not look the record up among the processed ones
CountRecordAgain(stats, update) ==
  IF update.recordId # NoId THEN Counted(stats, update, update.type) ELSE stats

\* variant that counts an update without a record id like any other
CountRecordless(stats, update) ==
  IF update.recordId \notin stats.modelStats[update.modelId].processedRecordIds
    THEN Counted(stats, update, update.type)
    ELSE stats

\* variant that counts a failed record as a success
CountRecordAsSuccess(stats, update) ==
  IF /\ update.recordId # NoId
     /\ update.recordId \notin stats.modelStats[update.modelId].processedRecordIds
    THEN Counted(stats, update, IF update.type = "error" THEN "success" ELSE update.type)
    ELSE stats

\* if (update.recordId) { if (!modelStats.processedRecordIds[...]) { ... } }
CountRecord(stats, update) ==
  IF /\ update.recordId # NoId
     /\ update.recordId \notin stats.modelStats[update.modelId].processedRecordIds
    THEN Counted(stats, update, update.type)
    ELSE stats

\* updateStatistics(update), as a function of statsRef.current
updateStatistics(stats, update) ==
  IF update.modelId # NoId /\ update.modelName # NoName
    THEN CountRecord(RegisterModel(stats, update), update)
    ELSE stats

RECURSIVE FoldStatistics(_, _)
FoldStatistics(stats, updates) ==
  IF updates = <<>> THEN stats
  ELSE FoldStatistics(updateStatistics(stats, Head(updates)), Tail(updates))

RECURSIVE FoldPercentage(_, _)
FoldPercentage(percentage, updates) ==
  IF updates = <<>> THEN percentage
  ELSE FoldPercentage(IF Head(updates).progress # NoProgress
                        THEN Head(updates).progress ELSE percentage,
                      Tail(updates))

\* the updates, last first
RECURSIVE Reversed(_)
Reversed(updates) ==
  IF updates = <<>> THEN <<>> ELSE Append(Reversed(Tail(updates)), Head(updates))

\* variant that puts a new update in front of the log
handleProgressNewestFirst(updates) ==
  /\ progressUpdates' = Reversed(updates) \o progressUpdates
  /\ progressPercentage' = FoldPercentage(progressPercentage, updates)
  /\ statsRef' = FoldStatistics(statsRef, updates)

\* handleProgress applied to each of the updates in turn
handleProgress(updates) ==
  /\ progressUpdates' = progressUpdates \o updates
  /\ progressPercentage' = FoldPercentage(progressPercentage, updates)
  /\ statsRef' = FoldStatistics(statsRef, updates)

\* the engine calls onProgress, which is handleProgress
onProgress(updates) ==
  /\ emitted' = emitted \o updates
  /\ handleProgress(updates)

(***************************************************************************)
(* The engine: duplicateLocaleContent.                                     *)
(***************************************************************************)
\* variant that counts the models from one
ModelProgressFromOne(idx, total) == 5 + ((180 * (idx + 1) + total) \div (2 * total))

\* 5 + Math.round((i / models.length) * 90)
ModelProgress(idx, total) == 5 + ((180 * idx + total) \div (2 * total))

\* variant that applies the selection before, and instead of, the block filter
FilterModelsSelectedFirst(selection) ==
  SelectSeq(allModels,
            LAMBDA model : IF selection.given /\ selection.ids # {}
                             THEN model.id \in selection.ids
                             ELSE ~model.modular_block)

\* allModels.filter(!modular_block), then the filter on selectedModelIds
FilterModels(selection) ==
  SelectSeq(allModels,
            LAMBDA model : /\ ~model.modular_block
                           /\ (selection.given /\ selection.ids # {}
                                 => model.id \in selection.ids))

\* variant in which a poll never sees the flag
NeverRequested == FALSE

\* if (abortSignal?.current), before each model
AbortRequestedAtModel == abortProcessRef

\* if (abortSignal?.current), before each record
AbortRequestedAtRecord == abortProcessRef

\* the head of the loop over models, entered at index idx after the engine
\* has emitted updates in the same stretch of code; past the last model it
\* is the code after the loop, up to the settling delay
EnterModel(ms, idx, updates) ==
  IF idx >= Len(ms)
    THEN /\ onProgress(updates \o <<VerifyingEvent>>)
         /\ pc' = "settling"
         /\ i' = idx
         /\ UNCHANGED <<position, paginateCalls>>
  ELSE IF AbortRequestedAtModel
    THEN /\ onProgress(updates \o <<AbortedEvent(5)>>)
         /\ pc' = "resolved"
         /\ i' = idx
         /\ UNCHANGED <<position, paginateCalls>>
    ELSE /\ onProgress(updates \o
                       <<ProcessingEvent(ms[idx + 1], ModelProgress(idx, Len(ms)))>>)
         /\ paginateCalls' = Append(paginateCalls, ms[idx + 1].id)
         /\ pc' = "paging"
         /\ i' = idx
         /\ position' = 0

\* the second confirmation resolves with 'overwrite': the screen resets its
\* log and statistics and calls the engine, which runs to the model listing
StartRun ==
  /\ pc = "idle"
  /\ ~isProcessing
  /\ ~showSummary
  /\ ~abortConfirmOpen
  /\ \E selection \in SelectionChoices : selectedModelIds' = selection
  /\ isProcessing' = TRUE
  /\ progressUpdates' = <<>>
  /\ showSummary' = FALSE
  /\ statsRef' = InitialStats
  /\ pc' = "listing"
  /\ models' = <<>>
  /\ i' = 0
  /\ position' = 0
  /\ inFlight' = NoCall
  /\ emitted' = <<>>
  /\ paginateCalls' = <<>>
  /\ updateCalls' = <<>>
  /\ updateResults' = <<>>
  /\ emptyRecords' = {}
  /\ faults' = 0
  /\ UNCHANGED <<sourceLocale, targetLocale, isAborting, abortProcessRef,
                 abortConfirmOpen, progressPercentage, stripVars, fieldVars>>

\* client.itemTypes.list() resolves
ListResolves ==
  /\ pc = "listing"
  /\ models' = FilterModels(selectedModelIds)
  /\ EnterModel(models', 0, <<FoundEvent>>)
  /\ UNCHANGED <<uiVars, stripVars, fieldVars, updateResults, selectedModelIds, inFlight,
                 updateCalls, emptyRecords, faults>>

\* variant in which the outer catch reports and does not rethrow
ListRejectsSwallowed ==
  /\ pc = "listing"
  /\ faults < MaxFaults
  /\ faults' = faults + 1
  /\ onProgress(<<MigrationErrorEvent>>)
  /\ pc' = "resolved"
  /\ UNCHANGED <<uiVars, stripVars, fieldVars, updateResults, selectedModelIds, models, i, position, inFlight,
                 paginateCalls, updateCalls, emptyRecords>>

\* client.itemTypes.list() rejects: the outer catch reports and rethrows
ListRejects ==
  /\ pc = "listing"
  /\ faults < MaxFaults
  /\ faults' = faults + 1
  /\ onProgress(<<MigrationErrorEvent>>)
  /\ pc' = "rejected"
  /\ UNCHANGED <<uiVars, stripVars, fieldVars, updateResults, selectedModelIds, models, i, position, inFlight,
                 paginateCalls, updateCalls, emptyRecords>>

\* variant that does not wait for the update it has issued
FireAndForget == "paging"

\* await client.items.update(...): the engine is suspended on the call
AwaitUpdate == "updating"

\* records delivered so far in this run and passed on to the update map
Delivered == Len(updateCalls) + Cardinality(emptyRecords)

\* the iterator delivers the next record of the current model: the abort poll,
\* the update map and, when the map is not empty, the call of items.update
PageYields ==
  /\ pc = "paging"
  /\ Delivered < MaxRecords
  /\ \E attributes \in RecordShapes :
       LET model == models[i + 1]
           recordId == RecordId(model.id, position + 1)
           updates == BuildUpdates(attributes, sourceLocale, targetLocale)
       IN  IF AbortRequestedAtRecord
             THEN /\ onProgress(<<AbortedEvent(ModelProgress(i, Len(models)))>>)
                  /\ pc' = "resolved"
                  /\ UNCHANGED <<position, inFlight, updateCalls, emptyRecords>>
           ELSE IF DOMAIN updates.ps # {}
             THEN /\ inFlight' = [recordId |-> recordId, modelId |-> model.id,
                                  attributes |-> attributes, updates |-> updates]
                  /\ updateCalls' = Append(updateCalls,
                                           [modelId |-> model.id, recordId |-> recordId])
                  /\ pc' = AwaitUpdate
                  /\ position' = position + 1
                  /\ UNCHANGED <<emitted, progressUpdates, progressPercentage,
                                 statsRef, emptyRecords>>
             ELSE /\ emptyRecords' = emptyRecords \cup {recordId}
                  /\ position' = position + 1
                  /\ UNCHANGED <<pc, inFlight, updateCalls, emitted, progressUpdates,
                                 progressPercentage, statsRef>>
  /\ UNCHANGED <<uiVars, stripVars, fieldVars, updateResults, selectedModelIds, models, i,
                 paginateCalls, faults>>

\* the iterator is exhausted: on to the next model, or to the end of the run
PageEnds ==
  /\ pc = "paging"
  /\ EnterModel(models, i + 1, <<>>)
  /\ UNCHANGED <<uiVars, stripVars, fieldVars, updateResults, selectedModelIds, models, inFlight, updateCalls,
                 emptyRecords, faults>>

\* variant in which the model-level catch rethrows to the outer catch
PageThrowsEscapes ==
  /\ pc = "paging"
  /\ faults < MaxFaults
  /\ faults' = faults + 1
  /\ onProgress(<<ModelErrorEvent(models[i + 1]), MigrationErrorEvent>>)
  /\ pc' = "rejected"
  /\ UNCHANGED <<uiVars, stripVars, fieldVars, updateResults, selectedModelIds, models, i, position, inFlight,
                 paginateCalls, updateCalls, emptyRecords>>

\* fetching a page throws: the model-level catch reports, the loop goes on
PageThrows ==
  /\ pc = "paging"
  /\ faults < MaxFaults
  /\ faults' = faults + 1
  /\ EnterModel(models, i + 1, <<ModelErrorEvent(models[i + 1])>>)
  /\ UNCHANGED <<uiVars, stripVars, fieldVars, updateResults, selectedModelIds, models, inFlight,
                 updateCalls, emptyRecords>>

\* client.items.update resolves
UpdateResolves ==
  /\ pc = "updating"
  /\ onProgress(<<RecordSuccessEvent(models[i + 1], inFlight.recordId)>>)
  /\ updateResults' = Append(updateResults, "resolved")
  /\ inFlight' = NoCall
  /\ pc' = "paging"
  /\ UNCHANGED <<uiVars, stripVars, fieldVars, selectedModelIds, models, i, position, paginateCalls,
                 updateCalls, emptyRecords, faults>>

\* variant without the catch around the record: the rethrown error reaches
\* the model-level catch
UpdateRejectsEscapes ==
  /\ pc = "updating"
  /\ faults < MaxFaults
  /\ faults' = faults + 1
  /\ updateResults' = Append(updateResults, "rejected")
  /\ inFlight' = NoCall
  /\ EnterModel(models, i + 1,
                <<RecordErrorEvent(models[i + 1], inFlight.recordId),
                  ModelErrorEvent(models[i + 1])>>)
  /\ UNCHANGED <<uiVars, stripVars, fieldVars, selectedModelIds, models, updateCalls, emptyRecords>>

\* variant that issues the rejected update once more
UpdateRejectsRetries ==
  /\ pc = "updating"
  /\ faults < MaxFaults
  /\ faults' = faults + 1
  /\ onProgress(<<RecordErrorEvent(models[i + 1], inFlight.recordId)>>)
  /\ updateResults' = Append(updateResults, "rejected")
  /\ updateCalls' = Append(updateCalls, [modelId |-> inFlight.modelId,
                                         recordId |-> inFlight.recordId])
  /\ UNCHANGED <<pc, inFlight, uiVars, stripVars, fieldVars, selectedModelIds, models, i, position,
                 paginateCalls, emptyRecords>>

\* client.items.update rejects: the inner catch reports and rethrows, the
\* catch around the record swallows the error
UpdateRejects ==
  /\ pc = "updating"
  /\ faults < MaxFaults
  /\ faults' = faults + 1
  /\ onProgress(<<RecordErrorEvent(models[i + 1], inFlight.recordId)>>)
  /\ updateResults' = Append(updateResults, "rejected")
  /\ inFlight' = NoCall
  /\ pc' = "paging"
  /\ UNCHANGED <<uiVars, stripVars, fieldVars, selectedModelIds, models, i, position, paginateCalls,
                 updateCalls, emptyRecords>>

\* variant that returns after the delay without a final event
SettlingDelayElapsesSilent ==
  /\ pc = "settling"
  /\ onProgress(<<>>)
  /\ pc' = "resolved"
  /\ UNCHANGED <<uiVars, stripVars, fieldVars, updateResults, selectedModelIds, models, i, position,
                 inFlight, paginateCalls, updateCalls, emptyRecords, faults>>

\* the 5 second delay after the last model is over
SettlingDelayElapses ==
  /\ pc = "settling"
  /\ onProgress(<<CompletedEvent>>)
  /\ pc' = "resolved"
  /\ UNCHANGED <<uiVars, stripVars, fieldVars, updateResults, selectedModelIds, models, i, position, inFlight,
                 paginateCalls, updateCalls, emptyRecords, faults>>

(***************************************************************************)
(* The configuration screen around a run.                                  *)
(***************************************************************************)
engineVars == <<selectedModelIds, models, i, position, inFlight, emitted,
                paginateCalls, updateCalls, updateResults, emptyRecords, faults>>

\* .then of the run: the callback follows the engine's return with no other
\* task in between
ThenHandler ==
  /\ pc = "resolved"
  /\ showSummary' = ~abortProcessRef
  /\ isProcessing' = FALSE
  /\ isAborting' = FALSE
  /\ abortProcessRef' = FALSE
  /\ pc' = "idle"
  /\ UNCHANGED <<sourceLocale, targetLocale, abortConfirmOpen, progressUpdates,
                 progressPercentage, statsRef, engineVars, stripVars, fieldVars>>

\* .catch of the run
CatchHandler ==
  /\ pc = "rejected"
  /\ showSummary' = TRUE
  /\ isProcessing' = FALSE
  /\ isAborting' = FALSE
  /\ abortProcessRef' = FALSE
  /\ pc' = "idle"
  /\ UNCHANGED <<sourceLocale, targetLocale, abortConfirmOpen, progressUpdates,
                 progressPercentage, statsRef, engineVars, stripVars, fieldVars>>

\* handleAbortProcess: the "Abort Process" button, shown while processing and
\* disabled while aborting, opens the confirmation
HandleAbortProcess ==
  /\ isProcessing
  /\ ~isAborting
  /\ ~abortConfirmOpen
  /\ pc \notin {"resolved", "rejected"}
  /\ abortConfirmOpen' = TRUE
  /\ UNCHANGED <<pc, sourceLocale, targetLocale, isProcessing, isAborting, showSummary,
                 abortProcessRef, progressUpdates, progressPercentage, statsRef,
                 engineVars, stripVars, fieldVars>>

\* the confirmation resolves with 'abort', whenever the user answers it
AbortConfirmed ==
  /\ abortConfirmOpen
  /\ pc \notin {"resolved", "rejected"}
  /\ abortConfirmOpen' = FALSE
  /\ isAborting' = TRUE
  /\ abortProcessRef' = TRUE
  /\ handleProgress(<<AbortingEvent>>)
  /\ UNCHANGED <<pc, sourceLocale, targetLocale, isProcessing, showSummary,
                 engineVars, stripVars, fieldVars>>

\* the confirmation resolves with the cancel value
AbortDeclined ==
  /\ abortConfirmOpen
  /\ pc \notin {"resolved", "rejected"}
  /\ abortConfirmOpen' = FALSE
  /\ UNCHANGED <<pc, sourceLocale, targetLocale, isProcessing, isAborting, showSummary,
                 abortProcessRef, progressUpdates, progressPercentage, statsRef,
                 engineVars, stripVars, fieldVars>>

\* "Return to Duplication Screen", the button of the summary view
ReturnToScreen ==
  /\ showSummary
  /\ showSummary' = FALSE
  /\ isProcessing' = FALSE
  /\ progressUpdates' = <<>>
  /\ UNCHANGED <<pc, sourceLocale, targetLocale, isAborting, abortProcessRef,
                 abortConfirmOpen, progressPercentage, statsRef, engineVars, stripVars, fieldVars>>

(***************************************************************************)
(* Specification.                                                          *)
(***************************************************************************)
Init ==
  /\ pc = "idle"
  /\ sourceLocale = currentSiteLocales[1]
  /\ targetLocale = currentSiteLocales[2]
  /\ isProcessing = FALSE
  /\ isAborting = FALSE
  /\ showSummary = FALSE
  /\ abortProcessRef = FALSE
  /\ abortConfirmOpen = FALSE
  /\ progressUpdates = <<>>
  /\ progressPercentage = 0
  /\ statsRef = InitialStats
  /\ selectedModelIds = [given |-> FALSE, ids |-> {}]
  /\ models = <<>>
  /\ i = 0
  /\ position = 0
  /\ inFlight = NoCall
  /\ emitted = <<>>
  /\ paginateCalls = <<>>
  /\ updateCalls = <<>>
  /\ updateResults = <<>>
  /\ emptyRecords = {}
  /\ faults = 0
  /\ value = JNull
  /\ mutated = <<>>
  /\ copied = <<>>
  /\ heap = EmptyHeap
  /\ mutatedRef = <<>>
  /\ copiedRef = <<>>
  /\ formValues = NoForm
  /\ ctx = NoCtx
  /\ render = NoRender
  /\ copyLoop = NoLoop
  /\ setCalls = <<>>
  /\ notices = <<>>

Next ==
  \/ StartRun
  \/ ListResolves
  \/ ListRejects
  \/ PageYields
  \/ PageEnds
  \/ PageThrows
  \/ UpdateResolves
  \/ UpdateRejects
  \/ SettlingDelayElapses
  \/ ThenHandler
  \/ CatchHandler
  \/ HandleAbortProcess
  \/ AbortConfirmed
  \/ AbortDeclined
  \/ ReturnToScreen

Spec == Init /\ [][Next]_vars

(***************************************************************************)
(* The ID-stripping functions on their own: a caller holds a JSON value    *)
(* and calls either function on it, then again on what the call returned.  *)
(***************************************************************************)
\* nesting depth of the JSON values
MaxDepth == 2
\* calls of one function in a row
MaxCalls == 2

JsonLeaves == {Str("t"), JNull}

\* the nodes that can hold a value: an array, a block whose item has an id,
\* an item node, an untagged object with an id, a block with an id of its own
\* whose item is the value
JsonParents(child) ==
  { Arr(<<child>>),
    Obj([type |-> Str("block"), item |-> Obj([id |-> Str("b"), content |-> child])]),
    Obj([type |-> Str("item"), id |-> Str("i"), attributes |-> child]),
    Obj([id |-> Str("u"), value |-> child]),
    Obj([type |-> Str("block"), id |-> Str("o"), item |-> child]) }

RECURSIVE JsonValues(_)
JsonValues(depth) ==
  IF depth = 0 THEN JsonLeaves
  ELSE JsonLeaves \cup UNION {JsonParents(child) : child \in JsonValues(depth - 1)}

screenVars == <<pc, uiVars, progressUpdates, progressPercentage, statsRef, engineVars>>

(***************************************************************************)
(* Objects in memory.  An object or an array lives at an address; a        *)
(* property or element that is itself an object or an array is held as a   *)
(* reference to its address, a primitive is held as it is.  An address is  *)
(* the number of the structure the object was built for and the path to    *)
(* the object inside it: 0 is the argument of the mutating function, 1     *)
(* the argument of the non-mutating one, 1 + n what its n-th call built.   *)
(***************************************************************************)
Ref(at) == [k |-> "ref", at |-> at]
IsRef(v) == v.k = "ref"
Address(root, path) == [root |-> root, path |-> path]
Child(at, key) == [root |-> at.root, path |-> Append(at.path, key)]
\* what a variable holds when it is given v, built at an address
Pointer(v, at) == IF v.k \in {"arr", "obj"} THEN Ref(at) ELSE v

\* the objects a caller has built for a JSON value, one per array and object
RECURSIVE Cells(_, _)
Cells(v, at) ==
  IF v.k = "arr"
    THEN {<<at, Arr([n \in DOMAIN v.es |-> Pointer(v.es[n], Child(at, ToString(n)))])>>}
         \cup UNION {Cells(v.es[n], Child(at, ToString(n))) : n \in DOMAIN v.es}
  ELSE IF v.k = "obj"
    THEN {<<at, Obj([key \in DOMAIN v.ps |-> Pointer(v.ps[key], Child(at, key))])>>}
         \cup UNION {Cells(v.ps[key], Child(at, key)) : key \in DOMAIN v.ps}
  ELSE {}

HeapOf(cells) == [at \in {c[1] : c \in cells} |-> (CHOOSE c \in cells : c[1] = at)[2]]

\* what removeBlockItemIdsImmutable returns for v when it builds at dest
CopyOf(v, dest) == IF IsRef(v) THEN Ref(dest) ELSE v

\* variant that copies the properties of the outermost object only
CopiedCellsShallow(h, v, dest) ==
  IF ~IsRef(v) THEN {}
  ELSE IF h[v.at].k = "arr" THEN {<<dest, h[v.at]>>}
  ELSE {<<dest, Obj([key \in DOMAIN h[v.at].ps \ {"id"} |-> h[v.at].ps[key]])>>}

\* the objects removeBlockItemIdsImmutable builds: value.map(...) for an
\* array, result = {} filled from the entries other than 'id' for an object
RECURSIVE CopiedCells(_, _, _)
CopiedCells(h, v, dest) ==
  IF ~IsRef(v) THEN {}
  ELSE IF h[v.at].k = "arr"
    THEN LET es == h[v.at].es
         IN  {<<dest, Arr([n \in DOMAIN es |-> CopyOf(es[n], Child(dest, ToString(n)))])>>}
             \cup UNION {CopiedCells(h, es[n], Child(dest, ToString(n))) : n \in DOMAIN es}
  ELSE LET ps == h[v.at].ps
           keys == DOMAIN ps \ {"id"}
       IN  {<<dest, Obj([key \in keys |-> CopyOf(ps[key], Child(dest, key))])>>}
           \cup UNION {CopiedCells(h, ps[key], Child(dest, key)) : key \in keys}

\* the memory after removeBlockItemIdsMutable(obj): the writes itemObj.id =
\* undefined and typedObj.id = undefined, then the calls on every property
RECURSIVE MutableHeap(_, _)
RECURSIVE MutableOver(_, _)
MutableOver(h, children) ==
  IF children = <<>> THEN h
  ELSE MutableOver(MutableHeap(h, Head(children)), Tail(children))

MutableHeap(h, obj) ==
  IF ~IsRef(obj) THEN h
  ELSE IF h[obj.at].k = "arr" THEN MutableOver(h, h[obj.at].es)
  ELSE LET typedObj == h[obj.at]
           h1 == IF /\ HasType(typedObj, "block")
                    /\ HasKey(typedObj, "item")
                    /\ IsRef(typedObj.ps["item"])
                    /\ HasKey(h[typedObj.ps["item"].at], "id")
                   THEN [h EXCEPT ![typedObj.ps["item"].at] =
                                    Obj([@.ps EXCEPT !["id"] = Undefined])]
                   ELSE h
           h2 == IF HasType(typedObj, "item") /\ HasKey(typedObj, "id")
                   THEN [h1 EXCEPT ![obj.at] = Obj([@.ps EXCEPT !["id"] = Undefined])]
                   ELSE h1
           order == KeyOrder(DOMAIN typedObj.ps)
       IN  MutableOver(h2, [n \in DOMAIN order |-> h2[obj.at].ps[order[n]]])

\* the argument of the next call of a function that returned results so far
NextArgument(results) == IF results = <<>> THEN value ELSE results[Len(results)]
\* the same argument as the caller holds it: the value built for the
\* function, or what its previous call returned
NextReference(refs, root) ==
  IF refs = <<>> THEN Pointer(value, Address(root, <<>>)) ELSE refs[Len(refs)]

CallMutable ==
  /\ Len(mutated) < MaxCalls
  /\ mutated' = Append(mutated, removeBlockItemIdsMutable(NextArgument(mutated)))
  /\ LET obj == NextReference(mutatedRef, 0)
     IN  /\ heap' = MutableHeap(heap, obj)
         /\ mutatedRef' = Append(mutatedRef, obj)
  /\ UNCHANGED <<value, copied, copiedRef, screenVars, fieldVars>>

CallImmutable ==
  /\ Len(copied) < MaxCalls
  /\ copied' = Append(copied, removeBlockItemIdsImmutable(NextArgument(copied)))
  /\ LET arg == NextReference(copiedRef, 1)
         dest == Address(2 + Len(copiedRef), <<>>)
     IN  /\ heap' = heap @@ HeapOf(CopiedCells(heap, arg, dest))
         /\ copiedRef' = Append(copiedRef, CopyOf(arg, dest))
  /\ UNCHANGED <<value, mutated, mutatedRef, screenVars, fieldVars>>

StripInit ==
  /\ value \in JsonValues(MaxDepth)
  /\ mutated = <<>>
  /\ copied = <<>>
  /\ heap = HeapOf(Cells(value, Address(0, <<>>)) \cup Cells(value, Address(1, <<>>)))
  /\ mutatedRef = <<>>
  /\ copiedRef = <<>>
  /\ pc = "idle"
  /\ sourceLocale = currentSiteLocales[1]
  /\ targetLocale = currentSiteLocales[2]
  /\ isProcessing = FALSE
  /\ isAborting = FALSE
  /\ showSummary = FALSE
  /\ abortProcessRef = FALSE
  /\ abortConfirmOpen = FALSE
  /\ progressUpdates = <<>>
  /\ progressPercentage = 0
  /\ statsRef = InitialStats
  /\ selectedModelIds = [given |-> FALSE, ids |-> {}]
  /\ models = <<>>
  /\ i = 0
  /\ position = 0
  /\ inFlight = NoCall
  /\ emitted = <<>>
  /\ paginateCalls = <<>>
  /\ updateCalls = <<>>
  /\ updateResults = <<>>
  /\ emptyRecords = {}
  /\ faults = 0
  /\ formValues = NoForm
  /\ ctx = NoCtx
  /\ render = NoRender
  /\ copyLoop = NoLoop
  /\ setCalls = <<>>
  /\ notices = <<>>

StripNext ==
  \/ CallMutable
  \/ CallImmutable

StripSpec == StripInit /\ [][StripNext]_vars

(***************************************************************************)
(* The consumer on its own: handleProgress is called with one update after *)
(* another, whatever the updates are.                                      *)
(***************************************************************************)
\* updates handed to handleProgress
MaxUpdates == 3

\* modelId and modelName of an update: neither, the id alone, a model under
\* its name and under another name, a second model
ModelChoices ==
  { [id |-> NoId, name |-> NoName],
    [id |-> 1, name |-> NoName],
    [id |-> 1, name |-> ModelName(1)],
    [id |-> 1, name |-> <<"Renamed", 1>>],
    [id |-> 2, name |-> ModelName(2)] }

UpdateChoices ==
  {ProgressUpdate("", type, NoProgress, model.id, model.name, recordId) :
     type \in {"success", "error"}, model \in ModelChoices,
     recordId \in {NoId, RecordId(1, 1)}}
  \cup {ProgressUpdate("", "success", NoProgress, 1, ModelName(1), RecordId(1, 2)),
        ProgressUpdate("", "info", 50, NoId, NoName, NoId),
        ProgressUpdate("", "info", 50, 2, ModelName(2), NoId)}

HandleProgressCall ==
  /\ Len(progressUpdates) < MaxUpdates
  /\ \E update \in UpdateChoices : handleProgress(<<update>>)
  /\ UNCHANGED <<pc, uiVars, engineVars, stripVars, fieldVars>>

ConsumerNext == HandleProgressCall

ConsumerSpec == Init /\ [][ConsumerNext]_vars

(***************************************************************************)
(* The locale selectors of the form.  The runs of Spec keep the selection  *)
(* the screen starts with; FormSpec adds the two selectors to them.        *)
(***************************************************************************)
\* the form container is on screen and no dialog covers it
FormVisible == ~isProcessing /\ ~showSummary /\ ~abortConfirmOpen

\* "Source Locale": every site locale is offered
SelectSourceLocale ==
  /\ FormVisible
  /\ \E newSourceLocale \in {currentSiteLocales[n] : n \in DOMAIN currentSiteLocales} :
       sourceLocale' = newSourceLocale
  /\ UNCHANGED <<pc, targetLocale, isProcessing, isAborting, showSummary, abortProcessRef,
                 abortConfirmOpen, progressUpdates, progressPercentage, statsRef,
                 engineVars, stripVars, fieldVars>>

\* "Target Locale": the site locales other than the selected source
SelectTargetLocale ==
  /\ FormVisible
  /\ \E locale \in {currentSiteLocales[n] : n \in DOMAIN currentSiteLocales} \ {sourceLocale} :
       targetLocale' = locale
  /\ UNCHANGED <<pc, sourceLocale, isProcessing, isAborting, showSummary, abortProcessRef,
                 abortConfirmOpen, progressUpdates, progressPercentage, statsRef,
                 engineVars, stripVars, fieldVars>>

FormNext ==
  \/ Next
  \/ SelectSourceLocale
  \/ SelectTargetLocale

FormSpec == Init /\ [][FormNext]_vars

(***************************************************************************)
(* The field extension (FieldExtension.tsx): the buttons "Copy to all      *)
(* locales" and "Copy from <main locale>" next to a localized field.  The  *)
(* host owns the record form and hands the plugin a ctx object with a copy *)
(* of the form values each time it renders the extension; when it does so  *)
(* after a change of the form is the host's choice.                        *)
(***************************************************************************)
\* clicks on a copy button in one session
MaxClicks == 2

\* ctx.formValues.internalLocales of the records the form can hold
FormLocaleLists ==
  {SubSeq(currentSiteLocales, 1, n) : n \in 1..Len(currentSiteLocales)}
\* values the editor can give the field in the main locale
MainValues == {BlockNode, Str("Hello")}

\* one render of FieldExtension with a ctx: the guard on the locale list,
\* mainLocale and isAtMainLocale
Render(c) ==
  LET availableLocales == c.formValues.internalLocales
  IN  IF ~(Len(availableLocales) > 1) THEN NoRender
      ELSE [visible |-> TRUE, mainLocale |-> availableLocales[1],
            isAtMainLocale |-> (availableLocales[1] = c.locale)]

CopiedToAllNotice == "Value copied to all locales"
CopiedFromNotice == "Value copied from main locale"

\* a copy handler at the head of its loop: the next call of
\* ctx.setFieldValue, or the notice once no locale is left
LoopHead(handler, mainLocaleValue, rest, calls) ==
  IF rest = <<>>
    THEN /\ copyLoop' = NoLoop
         /\ setCalls' = calls
         /\ notices' = Append(notices, IF handler = "copyToAllLocales"
                                         THEN CopiedToAllNotice ELSE CopiedFromNotice)
    ELSE /\ copyLoop' = [handler |-> handler, mainLocaleValue |-> mainLocaleValue,
                         rest |-> rest]
         /\ setCalls' = Append(calls, Head(rest))
         /\ notices' = notices

\* click on "Copy to all locales": availableLocales.splice(1) takes the
\* locales after the first out of ctx.formValues.internalLocales
CopyToAllLocales ==
  /\ render.visible /\ render.isAtMainLocale
  /\ copyLoop = NoLoop
  /\ Len(notices) < MaxClicks
  /\ LET availableLocales == ctx.formValues.internalLocales
     IN  /\ ctx' = [ctx EXCEPT !.formValues.internalLocales =
                                  SubSeq(availableLocales, 1, 1)]
         /\ LoopHead("copyToAllLocales", ctx.formValues.field[render.mainLocale],
                     SubSeq(availableLocales, 2, Len(availableLocales)), <<>>)
  /\ UNCHANGED <<formValues, render, screenVars, stripVars>>

\* click on "Copy from <main locale>"
CopyFromMainLocale ==
  /\ render.visible /\ ~render.isAtMainLocale
  /\ copyLoop = NoLoop
  /\ Len(notices) < MaxClicks
  /\ LoopHead("copyFromMainLocale", ctx.formValues.field[render.mainLocale],
              <<ctx.locale>>, <<>>)
  /\ UNCHANGED <<formValues, ctx, render, screenVars, stripVars>>

\* the host has set the field of one locale: the await returns
SetFieldValueResolves ==
  /\ copyLoop # NoLoop
  /\ formValues' = [formValues EXCEPT !.field =
                      SetKey(@, Head(copyLoop.rest),
                             removeBlockItemIdsImmutable(copyLoop.mainLocaleValue))]
  /\ LoopHead(copyLoop.handler, copyLoop.mainLocaleValue, Tail(copyLoop.rest), setCalls)
  /\ UNCHANGED <<ctx, render, screenVars, stripVars>>

\* the host renders the extension again, with a new ctx made from the form
\* and the locale tab the editor is on
CtxRefreshes ==
  /\ \E locale \in {formValues.internalLocales[n] : n \in DOMAIN formValues.internalLocales} :
       /\ ctx' = [formValues |-> formValues, locale |-> locale]
       /\ render' = Render(ctx')
  /\ UNCHANGED <<formValues, copyLoop, setCalls, notices, screenVars, stripVars>>

\* the editor types another value into the field of the main locale
EditField ==
  /\ \E v \in MainValues \ {formValues.field[formValues.internalLocales[1]]} :
       formValues' = [formValues EXCEPT !.field[formValues.internalLocales[1]] = v]
  /\ UNCHANGED <<ctx, render, copyLoop, setCalls, notices, screenVars, stripVars>>

FieldInit ==
  /\ pc = "idle"
  /\ sourceLocale = currentSiteLocales[1]
  /\ targetLocale = currentSiteLocales[2]
  /\ isProcessing = FALSE
  /\ isAborting = FALSE
  /\ showSummary = FALSE
  /\ abortProcessRef = FALSE
  /\ abortConfirmOpen = FALSE
  /\ progressUpdates = <<>>
  /\ progressPercentage = 0
  /\ statsRef = InitialStats
  /\ selectedModelIds = [given |-> FALSE, ids |-> {}]
  /\ models = <<>>
  /\ i = 0
  /\ position = 0
  /\ inFlight = NoCall
  /\ emitted = <<>>
  /\ paginateCalls = <<>>
  /\ updateCalls = <<>>
  /\ updateResults = <<>>
  /\ emptyRecords = {}
  /\ faults = 0
  /\ value = JNull
  /\ mutated = <<>>
  /\ copied = <<>>
  /\ heap = EmptyHeap
  /\ mutatedRef = <<>>
  /\ copiedRef = <<>>
  /\ \E availableLocales \in FormLocaleLists : \E v \in MainValues :
       formValues =
         [internalLocales |-> availableLocales,
          field |-> [locale \in {availableLocales[n] : n \in DOMAIN availableLocales} |->
                       IF locale = availableLocales[1] THEN v ELSE JNull]]
  /\ ctx = [formValues |-> formValues, locale |-> formValues.internalLocales[1]]
  /\ render = Render(ctx)
  /\ copyLoop = NoLoop
  /\ setCalls = <<>>
  /\ notices = <<>>

FieldNext ==
  \/ CopyToAllLocales
  \/ CopyFromMainLocale
  \/ SetFieldValueResolves
  \/ CtxRefreshes
  \/ EditField

FieldSpec == FieldInit /\ [][FieldNext]_vars

(***************************************************************************)
(* Helpers of the properties.                                              *)
(***************************************************************************)
Last(seq) == seq[Len(seq)]
Range(seq) == {seq[n] : n \in DOMAIN seq}
IsAbortedEvent(update) == update.message = "Process aborted by user" /\ update.type = "error"
\* this step issues a client.items.update call
IssuesUpdate == Len(updateCalls') > Len(updateCalls)
\* indexes of the events that carry a record id
EventsOfRecord(log, recordId) == {n \in DOMAIN log : log[n].recordId = recordId}
\* models of the host by id
ModelById(id) == allModels[CHOOSE n \in DOMAIN allModels : allModels[n].id = id]

(***************************************************************************)
(* C1.  Once the abort flag is set, the engine issues no updateRecord      *)
(* call: every step that issues one starts in a state where the flag,      *)
(* which the step polls at the start of the record, is false.  An update   *)
(* in flight when the flag is set was issued by an earlier step.           *)
(***************************************************************************)
C1_NoUpdateOnceAbortSet == [][abortProcessRef => ~IssuesUpdate]_vars

\* the flag was set while a record's update was in flight or its successor
\* was being fetched, and the poll of the next record of that model, a model
\* after the first, ended the run
C1_Witness ==
  /\ pc = "resolved"
  /\ abortProcessRef
  /\ Len(emitted) >= 2
  /\ IsAbortedEvent(Last(emitted))
  /\ emitted[Len(emitted) - 1].recordId # NoId
  /\ Last(emitted).progress > 5
  /\ paginateCalls[Len(paginateCalls)] = models[i + 1].id

(***************************************************************************)
(* C2.  If the abort flag becomes set while a run is in progress, the      *)
(* last event the engine has emitted when the run returns is 'Process      *)
(* aborted by user'.  The screen logs its "Aborting process..." entry      *)
(* exactly when it sets the flag, and the log is emptied when a run        *)
(* starts, so the entry tells that the flag was set during this run.       *)
(***************************************************************************)
C2_AbortEndsRunWithAbortedEvent ==
  (pc = "resolved" /\ AbortingEvent \in Range(progressUpdates))
    => IsAbortedEvent(Last(emitted))

(***************************************************************************)
(* C3.  When the poll at the start of a model sees the abort flag set, the *)
(* engine returns in that step with 'Process aborted by user' as its one   *)
(* terminal event, and neither that model nor a later one has a            *)
(* paginateRecords or updateRecord call; after its return the engine       *)
(* calls and emits nothing.                                                *)
(***************************************************************************)
\* this step reaches the head of the loop for a model, with the flag set
ModelPollSeesAbort ==
  /\ abortProcessRef
  /\ \/ pc = "listing" /\ pc' \notin {"listing", "rejected"} /\ models' # <<>>
     \/ pc = "paging" /\ i' = i + 1 /\ i + 1 < Len(models)

C3_AbortAtModelStart ==
  [][/\ ModelPollSeesAbort =>
          /\ pc' = "resolved"
          /\ IsAbortedEvent(Last(emitted'))
          /\ Cardinality({n \in DOMAIN emitted' : IsAbortedEvent(emitted'[n])}) = 1
          /\ \A j \in (i' + 1)..Len(models') :
               /\ models'[j].id \notin Range(paginateCalls')
               /\ \A n \in DOMAIN updateCalls' : updateCalls'[n].modelId # models'[j].id
     /\ pc = "resolved" => UNCHANGED <<emitted, paginateCalls, updateCalls>>]_vars

\* the flag was set after the first of two models completed with a write;
\* the second model was never fetched
C3_Witness ==
  /\ pc = "resolved"
  /\ Len(models) = 2
  /\ i = 1
  /\ IsAbortedEvent(Last(emitted))
  /\ paginateCalls = <<models[1].id>>
  /\ updateCalls # <<>>

(***************************************************************************)
(* C4.  In every update call, for every non-reserved field whose fetched   *)
(* value holds the source locale, the value sent for the target locale is  *)
(* the fetched source value with the ids of block items and of item nodes  *)
(* cleared, and equal to it everywhere else.                               *)
(***************************************************************************)
\* w is v, except that the id of every item node and of every block's item
\* is undefined; clearId says that v is the item of a block
RECURSIVE IdsCleared(_, _, _)
IdsCleared(v, w, clearId) ==
  IF v.k = "arr"
    THEN /\ w.k = "arr"
         /\ Len(w.es) = Len(v.es)
         /\ \A n \in DOMAIN v.es : IdsCleared(v.es[n], w.es[n], FALSE)
  ELSE IF v.k = "obj"
    THEN /\ w.k = "obj"
         /\ DOMAIN w.ps = DOMAIN v.ps
         /\ \A key \in DOMAIN v.ps :
              IF key = "id" /\ (clearId \/ HasType(v, "item"))
                THEN w.ps[key] = Undefined
                ELSE IdsCleared(v.ps[key], w.ps[key],
                                key = "item" /\ HasType(v, "block"))
  ELSE w = v

IsReserved(fieldKey) ==
  fieldKey \in {"id", "type", "meta", "created_at", "updated_at", "is_valid",
                "item_type", "_status"}

C4_TargetIsSourceWithoutIds ==
  pc = "updating" =>
    \A fieldKey \in DOMAIN inFlight.attributes :
      LET fetched == inFlight.attributes[fieldKey]
      IN  (~IsReserved(fieldKey) /\ fetched.k = "obj" /\ sourceLocale \in DOMAIN fetched.ps)
            => /\ fieldKey \in DOMAIN inFlight.updates.ps
               /\ targetLocale \in DOMAIN inFlight.updates.ps[fieldKey].ps
               /\ IdsCleared(fetched.ps[sourceLocale],
                             inFlight.updates.ps[fieldKey].ps[targetLocale], FALSE)

\* an update in flight whose target value had ids to clear and replaced a
\* different target value
C4_Witness ==
  /\ pc = "updating"
  /\ \E fieldKey \in DOMAIN inFlight.updates.ps :
       LET fetched == inFlight.attributes[fieldKey]
           sent == inFlight.updates.ps[fieldKey].ps[targetLocale]
       IN  /\ sent # fetched.ps[sourceLocale]
           /\ targetLocale \in DOMAIN fetched.ps
           /\ IdsCleared(fetched.ps[sourceLocale], sent, FALSE)

(***************************************************************************)
(* C5.  A field whose fetched value has no source-locale key is not in the *)
(* update map of a call, and a record whose update map is empty has no     *)
(* updateRecord call and no event carrying its id.                         *)
(***************************************************************************)
C5_NoSourceNoUpdate ==
  /\ pc = "updating" =>
       \A fieldKey \in DOMAIN inFlight.attributes :
         LET fetched == inFlight.attributes[fieldKey]
         IN  ~(fetched.k = "obj" /\ sourceLocale \in DOMAIN fetched.ps)
               => fieldKey \notin DOMAIN inFlight.updates.ps
  /\ \A recordId \in emptyRecords :
       /\ \A n \in DOMAIN updateCalls : updateCalls[n].recordId # recordId
       /\ EventsOfRecord(emitted, recordId) = {}

\* a record with an empty update map was passed over, and the update in
\* flight leaves out a localized field that lacks the source locale
C5_Witness ==
  /\ pc = "updating"
  /\ emptyRecords # {}
  /\ \E fieldKey \in DOMAIN inFlight.attributes :
       /\ ~IsReserved(fieldKey)
       /\ inFlight.attributes[fieldKey].k = "obj"
       /\ sourceLocale \notin DOMAIN inFlight.attributes[fieldKey].ps
       /\ fieldKey \notin DOMAIN inFlight.updates.ps

(***************************************************************************)
(* C6.  When updateRecord rejects for a record, the engine emits one error *)
(* event with the record's id and its model's id and name, the only event  *)
(* of that record; the error stays inside the record loop: the engine is   *)
(* back at the iterator of the same model, as after a successful update,   *)
(* with no model-level or run-level error.                                 *)
(***************************************************************************)
\* this step is the rejection of the update in flight
UpdateRejected == pc = "updating" /\ faults' = faults + 1

C6_RecordErrorIsContained ==
  [][UpdateRejected =>
       /\ emitted' = Append(emitted,
                            [message |-> "Failed to update record", type |-> "error",
                             progress |-> NoProgress, modelId |-> models[i + 1].id,
                             modelName |-> models[i + 1].name,
                             recordId |-> inFlight.recordId])
       /\ Cardinality(EventsOfRecord(emitted', inFlight.recordId)) = 1
       /\ pc' = "paging"
       /\ i' = i
       /\ position' = position
       /\ UNCHANGED <<paginateCalls, updateCalls>>]_vars

\* a record's update was rejected and the next record of the same model was
\* then updated with success
C6_Witness ==
  \E n \in DOMAIN emitted :
    /\ n < Len(emitted)
    /\ emitted[n].type = "error"
    /\ emitted[n].recordId # NoId
    /\ emitted[n + 1].type = "success"
    /\ emitted[n + 1].recordId = emitted[n].recordId + 1
    /\ emitted[n + 1].modelId = emitted[n].modelId

(***************************************************************************)
(* C7.  When the iteration over a model's records throws, the engine emits *)
(* one error event with that model's id and name and no record id, leaves  *)
(* the model (no later event or update of it), and goes on with the next   *)
(* model: it fetches the next model's records unless the abort flag is     *)
(* set, and the run does not reject.                                       *)
(***************************************************************************)
\* this step is a throw of the iterator
PageThrew == pc = "paging" /\ faults' = faults + 1

\* in the log, nothing of a model follows the model's own error event
ModelErrorClosesModel(log) ==
  \A n \in DOMAIN log :
    (log[n].type = "error" /\ log[n].modelId # NoId /\ log[n].recordId = NoId)
      => \A m \in DOMAIN log : m > n => log[m].modelId # log[n].modelId

C7_ModelErrorIsContained ==
  [][PageThrew =>
       /\ Len(emitted') = Len(emitted) + 2
       /\ emitted'[Len(emitted) + 1] =
            [message |-> "Error processing model", type |-> "error",
             progress |-> NoProgress, modelId |-> models[i + 1].id,
             modelName |-> models[i + 1].name, recordId |-> NoId]
       /\ ModelErrorClosesModel(emitted')
       /\ i' = i + 1
       /\ pc' # "rejected"
       /\ UNCHANGED updateCalls
       /\ (i + 1 < Len(models) /\ ~abortProcessRef) =>
            /\ pc' = "paging"
            /\ paginateCalls' = Append(paginateCalls, models[i + 2].id)
            /\ ~IsAbortedEvent(Last(emitted'))]_vars

\* the first model failed on a later page, after one of its records was
\* updated, and the second model was then fetched and updated
C7_Witness ==
  /\ Len(models) = 2
  /\ Len(paginateCalls) = 2
  /\ \E n \in DOMAIN emitted :
       /\ emitted[n].type = "error"
       /\ emitted[n].modelId = models[1].id
       /\ emitted[n].recordId = NoId
       /\ n > 1 /\ emitted[n - 1].recordId # NoId
  /\ \E n \in DOMAIN updateCalls : updateCalls[n].modelId = models[2].id

(***************************************************************************)
(* C8.  When the model listing fails, the error escapes: the run rejects   *)
(* to its caller, its last event is the final error event, it has made no  *)
(* paginateRecords or updateRecord call and makes none afterwards, and it  *)
(* does not emit the final success event.                                  *)
(***************************************************************************)
\* this step is the rejection of the model listing
ListRejected == pc = "listing" /\ faults' = faults + 1

C8_EscapedErrorRejects ==
  [][/\ ListRejected =>
          /\ pc' = "rejected"
          /\ emitted' = Append(emitted, MigrationErrorEvent)
          /\ UNCHANGED <<paginateCalls, updateCalls>>
     /\ pc = "rejected" =>
          /\ UNCHANGED <<emitted, paginateCalls, updateCalls>>
          /\ Last(emitted) = MigrationErrorEvent
          /\ CompletedEvent \notin Range(emitted)
          /\ pc' = "idle"]_vars

\* the listing failed and the screen's catch handler has run
C8_Witness ==
  /\ pc = "idle"
  /\ showSummary
  /\ emitted = <<MigrationErrorEvent>>
  /\ paginateCalls = <<>>

(***************************************************************************)
(* C9.  When a selectedModelIds list is given, whatever its length, every  *)
(* paginateRecords and updateRecord call is for a model in the list.       *)
(***************************************************************************)
C9_OnlySelectedModels ==
  selectedModelIds.given =>
    /\ \A n \in DOMAIN paginateCalls : paginateCalls[n] \in selectedModelIds.ids
    /\ \A n \in DOMAIN updateCalls : updateCalls[n].modelId \in selectedModelIds.ids

(***************************************************************************)
(* C10.  No paginateRecords and no updateRecord call is made for a model   *)
(* flagged modular_block, whether or not its id is in selectedModelIds.    *)
(***************************************************************************)
C10_NoBlockModel ==
  /\ \A n \in DOMAIN paginateCalls : ~ModelById(paginateCalls[n]).modular_block
  /\ \A n \in DOMAIN updateCalls : ~ModelById(updateCalls[n].modelId).modular_block

\* a run with a block model and a regular model selected has completed and
\* has written to the regular model
C10_Witness ==
  /\ pc = "resolved"
  /\ selectedModelIds.given
  /\ \E id \in selectedModelIds.ids : ModelById(id).modular_block
  /\ \E id \in selectedModelIds.ids : ~ModelById(id).modular_block
  /\ Last(emitted) = CompletedEvent
  /\ updateCalls # <<>>

(***************************************************************************)
(* C11.  Either ID-stripping function is idempotent: called on what it     *)
(* returned, it returns a value structurally equal to its argument, so     *)
(* every later result of a chain of calls equals the first.                *)
(***************************************************************************)
C11_StripIsIdempotent ==
  /\ \A n \in DOMAIN mutated : mutated[n] = mutated[1]
  /\ \A n \in DOMAIN copied : copied[n] = copied[1]

\* both functions were called twice on a value from which each removed ids,
\* one nested inside the other
C11_Witness ==
  /\ Len(mutated) >= 2
  /\ Len(copied) >= 2
  /\ mutated[1] # value
  /\ copied[1] # value
  /\ value.k = "obj"
  /\ "id" \in DOMAIN value.ps
  /\ \E key \in DOMAIN value.ps :
       value.ps[key].k = "obj" /\ "id" \in DOMAIN value.ps[key].ps

(***************************************************************************)
(* C12.  The two functions agree on read-back: for every JSON value, what  *)
(* removeBlockItemIdsMutable returns and what removeBlockItemIdsImmutable  *)
(* returns are structurally equal once a key whose value is undefined      *)
(* counts as absent, objects with an id that are neither block nor item    *)
(* nodes included.                                                         *)
(***************************************************************************)
\* the value as read back: a key holding undefined is absent
RECURSIVE ReadBack(_)
ReadBack(node) ==
  IF node.k = "arr"
    THEN Arr([n \in DOMAIN node.es |-> ReadBack(node.es[n])])
  ELSE IF node.k = "obj"
    THEN Obj([key \in {x \in DOMAIN node.ps : node.ps[x] # Undefined} |->
                ReadBack(node.ps[key])])
  ELSE node

C12_VariantsAgreeOnReadBack ==
  (mutated # <<>> /\ copied # <<>>) => ReadBack(mutated[1]) = ReadBack(copied[1])

(***************************************************************************)
(* C13.  For every JSON value, in what the mutating function returns no    *)
(* matched node has an id left: at any nesting depth the item of every     *)
(* block node and every item node has no id.  The ids of all other         *)
(* objects, those beneath a matched node included, are the ids of the      *)
(* argument.                                                               *)
(***************************************************************************)
\* the node and everything nested in it
RECURSIVE SubNodes(_)
SubNodes(node) ==
  {node} \cup
  (IF node.k = "arr" THEN UNION {SubNodes(node.es[n]) : n \in DOMAIN node.es}
   ELSE IF node.k = "obj" THEN UNION {SubNodes(node.ps[key]) : key \in DOMAIN node.ps}
   ELSE {})

\* the node is an object with an id that is not undefined
CarriesId(node) == HasKey(node, "id") /\ node.ps["id"] # Undefined

\* the item of a block node, and an item node, have no id
MatchedIdGone(node) ==
  /\ (HasType(node, "block") /\ HasKey(node, "item")) => ~CarriesId(node.ps["item"])
  /\ HasType(node, "item") => ~CarriesId(node)

C13_MatchedNodesHaveNoId ==
  mutated # <<>> =>
    /\ \A node \in SubNodes(mutated[1]) : MatchedIdGone(node)
    /\ IdsCleared(value, mutated[1], FALSE)

\* the statement with no id anywhere beneath a matched node
C13_NoIdBeneathMatchedNode ==
  mutated # <<>> =>
    \A node \in SubNodes(mutated[1]) :
      /\ MatchedIdGone(node)
      /\ (HasType(node, "block") \/ HasType(node, "item")) =>
           \A below \in SubNodes(node) \ {node} : ~CarriesId(below)

\* the item of a block lost its id, and an object beneath that item kept
\* the id it had
C13_Witness ==
  /\ mutated # <<>>
  /\ mutated[1] # value
  /\ \E node \in SubNodes(mutated[1]) :
       /\ HasType(node, "block")
       /\ HasKey(node, "item")
       /\ HasKey(node.ps["item"], "id")
       /\ ~CarriesId(node.ps["item"])
       /\ \E below \in SubNodes(node.ps["item"]) \ {node.ps["item"]} : CarriesId(below)

(***************************************************************************)
(* C14.  The aggregator is idempotent on the record id: when handleProgress*)
(* receives a success or error update with a record id that it has         *)
(* received before, right before or with other updates in between, no      *)
(* global and no per-model counter changes.                                *)
(***************************************************************************)
\* this step is a call of handleProgress with one update
Handles(update) == progressUpdates' = Append(progressUpdates, update)

C14_AggregatorIsIdempotent ==
  [][\A n \in DOMAIN progressUpdates :
       LET update == progressUpdates[n]
       IN  (/\ Handles(update)
            /\ update.type \in {"success", "error"}
            /\ update.recordId # NoId)
             => statsRef' = statsRef]_vars

\* a counted record update came a second time after the update of another
\* record, and each of the two records is counted once
C14_Witness ==
  /\ Len(progressUpdates) = 3
  /\ progressUpdates[3] = progressUpdates[1]
  /\ progressUpdates[2].recordId \notin {NoId, progressUpdates[1].recordId}
  /\ statsRef.totalRecords = 2
  /\ statsRef.failedRecords = 1

NewModelStats(name) ==
  [success |-> 0, error |-> 0, total |-> 0, name |-> name, processedRecordIds |-> {}]

C16_RegistersNamedModel ==
  [][\A update \in UpdateChoices :
       Handles(update) =>
         /\ (/\ update.modelId # NoId
             /\ update.modelName # NoName
             /\ update.modelId \notin DOMAIN statsRef.modelStats)
              => /\ update.modelId \in DOMAIN statsRef'.modelStats
                 /\ statsRef'.totalModels = statsRef.totalModels + 1
                 /\ statsRef'.modelStats[update.modelId].name = update.modelName
                 /\ update.recordId = NoId =>
                      statsRef'.modelStats[update.modelId] = NewModelStats(update.modelName)
                 /\ update.recordId # NoId =>
                      /\ statsRef'.modelStats[update.modelId].total = 1
                      /\ statsRef'.modelStats[update.modelId].processedRecordIds =
                           {update.recordId}
         /\ update.modelId \in DOMAIN statsRef.modelStats
              => /\ statsRef'.totalModels = statsRef.totalModels
                 /\ update.modelId \in DOMAIN statsRef'.modelStats
                 /\ statsRef'.modelStats[update.modelId].name =
                      statsRef.modelStats[update.modelId].name
         /\ update.modelName = NoName => statsRef' = statsRef]_vars

\* the statement for every update that carries a modelId
C16_RegistersEveryModel ==
  [][\A update \in UpdateChoices :
       Handles(update) =>
         /\ (update.modelId # NoId /\ update.modelId \notin DOMAIN statsRef.modelStats)
              => /\ update.modelId \in DOMAIN statsRef'.modelStats
                 /\ statsRef'.totalModels = statsRef.totalModels + 1
                 /\ statsRef'.modelStats[update.modelId] = NewModelStats(update.modelName)
         /\ update.modelId \in DOMAIN statsRef.modelStats
              => /\ statsRef'.totalModels = statsRef.totalModels
                 /\ update.modelId \in DOMAIN statsRef'.modelStats
                 /\ statsRef'.modelStats[update.modelId].name =
                      statsRef.modelStats[update.modelId].name]_vars

\* two models are registered, the first of them by an update with a record
\* id, and an update has since named the first model differently
C16_Witness ==
  /\ Len(progressUpdates) = 3
  /\ statsRef.totalModels = 2
  /\ progressUpdates[1].recordId # NoId
  /\ progressUpdates[3].modelId = progressUpdates[1].modelId
  /\ progressUpdates[3].modelName \notin {NoName, progressUpdates[1].modelName}
  /\ statsRef.modelStats[progressUpdates[1].modelId].name = progressUpdates[1].modelName

(***************************************************************************)
(* C17.  With the engine's events folded by the aggregator in the order of *)
(* their emission, successfulRecords is the number of client.items.update  *)
(* calls of the run that resolved and failedRecords the number that        *)
(* rejected, at every moment of the run and so at its end; a rejected      *)
(* record is in failedRecords and not in successfulRecords.                *)
(***************************************************************************)
Count(seq, x) == Cardinality({n \in DOMAIN seq : seq[n] = x})

C17_StatsMatchUpdateResults ==
  /\ statsRef = FoldStatistics(InitialStats, emitted)
  /\ statsRef.successfulRecords = Count(updateResults, "resolved")
  /\ statsRef.failedRecords = Count(updateResults, "rejected")

\* a run has completed in which one update was rejected and two resolved
C17_Witness ==
  /\ pc = "resolved"
  /\ Last(emitted) = CompletedEvent
  /\ Count(updateResults, "rejected") = 1
  /\ Count(updateResults, "resolved") = 2
  /\ statsRef.failedRecords = 1
  /\ statsRef.totalRecords = 3

(***************************************************************************)
(* C18.  Models are fetched in the order of the model listing and records  *)
(* are updated in the order pagination delivers them; the log holds the    *)
(* engine's events in the order of their emission (with the screen's own   *)
(* "Aborting process..." entries in between); no event of a model follows  *)
(* an event of a later model, and the events of records follow the order   *)
(* in which their updates were issued.                                     *)
(***************************************************************************)
\* place of a model in the host's listing
ModelIndex(id) == CHOOSE n \in DOMAIN allModels : allModels[n].id = id
IsEngineEvent(update) == update # AbortingEvent
HasRecordId(update) == update.recordId # NoId

C18_EventsInProcessingOrder ==
  /\ \A a, b \in DOMAIN models :
       a < b => ModelIndex(models[a].id) < ModelIndex(models[b].id)
  /\ Len(paginateCalls) <= Len(models)
  /\ \A n \in DOMAIN paginateCalls : paginateCalls[n] = models[n].id
  /\ \A a, b \in DOMAIN updateCalls :
       a < b =>
         \/ ModelIndex(updateCalls[a].modelId) < ModelIndex(updateCalls[b].modelId)
         \/ /\ updateCalls[a].modelId = updateCalls[b].modelId
            /\ updateCalls[a].recordId < updateCalls[b].recordId
  /\ (isProcessing \/ showSummary) =>
       SelectSeq(progressUpdates, IsEngineEvent) = emitted
  /\ \A a, b \in DOMAIN emitted :
       (a < b /\ emitted[a].modelId # NoId /\ emitted[b].modelId # NoId)
         => ModelIndex(emitted[a].modelId) <= ModelIndex(emitted[b].modelId)
  /\ LET recordEvents == SelectSeq(emitted, HasRecordId)
     IN  /\ Len(recordEvents) <= Len(updateCalls)
         /\ \A n \in DOMAIN recordEvents :
              /\ recordEvents[n].recordId = updateCalls[n].recordId
              /\ recordEvents[n].modelId = updateCalls[n].modelId

\* two models were processed, the first with two record updates and the
\* second with one, and the screen logged its own entry during the run
C18_Witness ==
  /\ isProcessing
  /\ Len(paginateCalls) = 2
  /\ Len(updateResults) = 3
  /\ updateCalls[2].modelId = models[1].id
  /\ updateCalls[3].modelId = models[2].id
  /\ AbortingEvent \in Range(progressUpdates)
  /\ Last(progressUpdates) # AbortingEvent

(***************************************************************************)
(* C19.  At most one client.items.update call is outstanding: all calls    *)
(* but the last one issued have settled, and while a call is outstanding   *)
(* the engine is suspended on it.                                          *)
(***************************************************************************)
Outstanding == Len(updateCalls) - Len(updateResults)

C19_OneUpdateOutstanding ==
  /\ Outstanding \in {0, 1}
  /\ Outstanding = 1 <=> pc = "updating"
  /\ pc = "updating" => inFlight.recordId = Last(updateCalls).recordId

\* the third update of a run is outstanding, the two before it have settled
C19_Witness ==
  /\ pc = "updating"
  /\ Len(updateCalls) = 3
  /\ Len(updateResults) = 2
  /\ inFlight.recordId = updateCalls[3].recordId

(***************************************************************************)
(* C20.  A run whose model listing succeeded and in which no poll saw the  *)
(* abort flag set leaves the loop over the models with the info event of   *)
(* progress 100, and returns after the settling delay with the final       *)
(* success event as the next and last event, however many record-level and *)
(* model-level errors there were; once it has returned, the engine emits   *)
(* nothing.                                                                *)
(***************************************************************************)
NoPollSawAbort == \A n \in DOMAIN emitted : ~IsAbortedEvent(emitted[n])

C20_CompletesWithFinalEvents ==
  /\ [](/\ pc = "settling" =>
             /\ Last(emitted) = VerifyingEvent
             /\ VerifyingEvent.progress = 100
             /\ NoPollSawAbort
        /\ (pc = "resolved" /\ NoPollSawAbort) =>
             /\ Len(emitted) >= 2
             /\ emitted[Len(emitted) - 1] = VerifyingEvent
             /\ Last(emitted) = CompletedEvent
             /\ Count(emitted, VerifyingEvent) = 1
             /\ Count(emitted, CompletedEvent) = 1
        /\ (pc \in {"listing", "paging", "updating"} /\ NoPollSawAbort) =>
             /\ VerifyingEvent \notin Range(emitted)
             /\ CompletedEvent \notin Range(emitted))
  /\ [][/\ (/\ pc \in {"listing", "paging"}
            /\ emitted' # emitted
            /\ pc' # "rejected"
            /\ i' >= Len(models'))
             => (pc' = "settling" /\ Last(emitted') = VerifyingEvent)
        /\ (pc = "settling" /\ pc' # "settling") => pc' = "resolved"
        /\ pc = "resolved" => (emitted' = emitted /\ pc' \in {"resolved", "idle"})
        /\ (pc = "idle" /\ pc' = "idle") => emitted' = emitted]_vars

\* a run with a rejected update and a failed model has returned with the
\* final success event
C20_Witness ==
  /\ pc = "resolved"
  /\ Last(emitted) = CompletedEvent
  /\ \E n \in DOMAIN emitted :
       emitted[n].type = "error" /\ emitted[n].recordId # NoId
  /\ \E n \in DOMAIN emitted :
       emitted[n].type = "error" /\ emitted[n].modelId # NoId /\ emitted[n].recordId = NoId

(***************************************************************************)
(* C21.  The engine issues at most one client.items.update call for a      *)
(* record in a run, and the call carries the record's whole update map:    *)
(* every field that is not reserved and holds the source locale is in it.  *)
(* A rejection issues no call, and the call of a record is issued in the   *)
(* step that delivers the record, map and all.                             *)
(***************************************************************************)
C21_OneUpdatePerRecord ==
  /\ [](/\ \A a, b \in DOMAIN updateCalls :
             a # b => updateCalls[a].recordId # updateCalls[b].recordId
        /\ \A n \in DOMAIN updateCalls : updateCalls[n].recordId \notin emptyRecords
        /\ pc = "updating" =>
             /\ inFlight.updates = BuildUpdates(inFlight.attributes, sourceLocale, targetLocale)
             /\ \A fieldKey \in DOMAIN inFlight.attributes :
                  (~IsReserved(fieldKey) /\ HasLocale(inFlight.attributes[fieldKey], sourceLocale))
                    => fieldKey \in DOMAIN inFlight.updates.ps)
  /\ [][/\ UpdateRejected => (updateCalls' = updateCalls /\ pc' = "paging")
        /\ IssuesUpdate =>
             /\ pc = "paging"
             /\ Len(updateCalls') = Len(updateCalls) + 1
             /\ Last(updateCalls').recordId = inFlight'.recordId]_vars

\* an update was rejected and the run went on to update the next record and
\* returned; the rejected record has its one call
C21_Witness ==
  /\ pc = "resolved"
  /\ Len(updateCalls) = 3
  /\ updateResults[1] = "rejected"
  /\ updateResults[2] = "resolved"
  /\ Cardinality({updateCalls[n].recordId : n \in DOMAIN updateCalls}) = 3

(***************************************************************************)
(* C22.  In a run with n models the "Processing model" event of the model  *)
(* at 0-based position i carries progress 5 + round(i / n * 90), halves    *)
(* rounded up: 5 for the first model, between 5 and 95 for every model.    *)
(* The event that reports the number of models carries progress 5.         *)
(***************************************************************************)
\* largest number of models for which the arithmetic is compared
MaxTotal == 12

\* r is num / den rounded to the nearest integer, halves up
RoundsTo(r, num, den) == den * (2 * r - 1) <= 2 * num /\ 2 * num < den * (2 * r + 1)

StartsWithUnderscore(fieldKey) == fieldKey \in {"_status"}

C23_NoReservedKeyInUpdates ==
  pc = "updating" =>
    \A fieldKey \in DOMAIN inFlight.updates.ps :
      /\ ~StartsWithUnderscore(fieldKey)
      /\ fieldKey \notin {"id", "type", "meta", "created_at", "updated_at",
                           "is_valid", "item_type"}

\* an update is sent for a record whose every reserved attribute holds the
\* source locale
C23_Witness ==
  /\ pc = "updating"
  /\ inFlight.updates.ps # EmptyProps
  /\ \A fieldKey \in {"id", "type", "meta", "created_at", "updated_at",
                        "is_valid", "item_type", "_status"} :
       /\ fieldKey \in DOMAIN inFlight.attributes
       /\ HasLocale(inFlight.attributes[fieldKey], sourceLocale)

(***************************************************************************)
(* C24.  A call of the non-mutating variant leaves its argument as it was, *)
(* every id still there, and what it returns is made of newly built        *)
(* objects and arrays only.  A call of the mutating variant builds         *)
(* nothing: it clears the ids inside the object it was given and returns   *)
(* that very reference.                                                    *)
(***************************************************************************)
\* the JSON value seen through a reference
RECURSIVE Deref(_, _)
Deref(h, v) ==
  IF ~IsRef(v) THEN v
  ELSE IF h[v.at].k = "arr"
    THEN Arr([n \in DOMAIN h[v.at].es |-> Deref(h, h[v.at].es[n])])
  ELSE Obj([key \in DOMAIN h[v.at].ps |-> Deref(h, h[v.at].ps[key])])

\* the addresses of the objects a reference leads to
RECURSIVE Reach(_, _)
Reach(h, v) ==
  IF ~IsRef(v) THEN {}
  ELSE {v.at} \cup
       IF h[v.at].k = "arr"
         THEN UNION {Reach(h, h[v.at].es[n]) : n \in DOMAIN h[v.at].es}
         ELSE UNION {Reach(h, h[v.at].ps[key]) : key \in DOMAIN h[v.at].ps}

\* an object somewhere inside v has an id that is not undefined
RECURSIVE HoldsId(_)
HoldsId(v) ==
  IF v.k = "arr" THEN \E n \in DOMAIN v.es : HoldsId(v.es[n])
  ELSE IF v.k = "obj"
    THEN \/ ("id" \in DOMAIN v.ps /\ v.ps["id"] # Undefined)
         \/ \E key \in DOMAIN v.ps : HoldsId(v.ps[key])
  ELSE FALSE

C24_CopyLeavesArgumentMutableWritesInPlace ==
  [][/\ copied' # copied =>
          LET arg == NextReference(copiedRef, 1)
              result == copiedRef'[Len(copiedRef')]
          IN  /\ \A at \in DOMAIN heap : heap'[at] = heap[at]
              /\ Deref(heap', arg) = Deref(heap, arg)
              /\ IsRef(arg) <=> IsRef(result)
              /\ Reach(heap', result) \cap DOMAIN heap = {}
              /\ Deref(heap', result) = copied'[Len(copied')]
              /\ ~IsRef(arg) => result = arg
     /\ mutated' # mutated =>
          LET obj == NextReference(mutatedRef, 0)
              result == mutatedRef'[Len(mutatedRef')]
          IN  /\ result = obj
              /\ DOMAIN heap' = DOMAIN heap
              /\ \A at \in DOMAIN heap \ Reach(heap, obj) : heap'[at] = heap[at]
              /\ IdsCleared(Deref(heap, obj), Deref(heap', obj), FALSE)
              /\ Deref(heap', result) = mutated'[Len(mutated')]]_vars

\* both functions were called on a value with ids at two depths: the argument
\* of the mutating one has lost an id, the argument of the other holds the
\* value it was built with, and the copy is a different object without ids
C24_Witness ==
  /\ mutatedRef # <<>> /\ copiedRef # <<>>
  /\ IsRef(mutatedRef[1]) /\ IsRef(copiedRef[1])
  /\ mutatedRef[1].at = Address(0, <<>>)
  /\ Deref(heap, mutatedRef[1]) # value
  /\ Deref(heap, Ref(Address(1, <<>>))) = value
  /\ copiedRef[1].at # Address(1, <<>>)
  /\ HoldsId(value) /\ ~HoldsId(Deref(heap, copiedRef[1]))
  /\ Cardinality(Reach(heap, copiedRef[1])) >= 3

(***************************************************************************)
(* C25.  Every click on "Copy to all locales" calls ctx.setFieldValue for  *)
(* each locale of the form other than the main one, with the main-locale   *)
(* value without its ids, the second click as the first, and leaves the    *)
(* list of locales in ctx.formValues as it was.                            *)
(***************************************************************************)
C25_CopyToAllCopiesEveryTime ==
  [][/\ (copyLoop = NoLoop /\ copyLoop' # copyLoop /\ copyLoop'.handler = "copyToAllLocales")
          \/ (notices' # notices /\ Last(notices') = CopiedToAllNotice)
        => ctx'.formValues.internalLocales = ctx.formValues.internalLocales
     /\ (notices' # notices /\ Last(notices') = CopiedToAllNotice) =>
          LET mainLocale == formValues.internalLocales[1]
              mainLocaleValue == IF copyLoop = NoLoop
                                   THEN ctx.formValues.field[render.mainLocale]
                                   ELSE copyLoop.mainLocaleValue
          IN  \A n \in 2..Len(formValues.internalLocales) :
                LET locale == formValues.internalLocales[n]
                IN  /\ locale \in Range(setCalls')
                    /\ formValues'.field[locale] =
                         removeBlockItemIdsImmutable(mainLocaleValue)]_vars

(***************************************************************************)
(* C26.  The abort flag is false when a run starts: a confirmation of the  *)
(* abort dialog that belongs to one run, given even after that run has     *)
(* ended, does not abort a later run.                                      *)
(***************************************************************************)
C26_AbortFlagClearAtStart ==
  [][(~isProcessing /\ isProcessing') => ~abortProcessRef']_vars

(***************************************************************************)
(* C27.  Whatever the user selects in the two locale selectors before a    *)
(* run is confirmed, the run starts with a source locale other than its    *)
(* target locale.                                                          *)
(***************************************************************************)
C27_RunLocalesDiffer ==
  [][(pc = "idle" /\ pc' = "listing") => sourceLocale' # targetLocale']_vars

(***************************************************************************)
(* C28.  In the map sent to items.update every included field holds, for   *)
(* each locale other than the target locale, the value the record was      *)
(* fetched with, ids of blocks and items included: only the target-locale  *)
(* key differs from the fetched field.                                     *)
(***************************************************************************)
C28_OnlyTargetLocaleDiffers ==
  pc = "updating" =>
    \A fieldKey \in DOMAIN inFlight.updates.ps :
      LET fetched == inFlight.attributes[fieldKey]
          sent == inFlight.updates.ps[fieldKey]
      IN  /\ DOMAIN sent.ps = DOMAIN fetched.ps \cup {targetLocale}
          /\ \A locale \in DOMAIN fetched.ps \ {targetLocale} :
               sent.ps[locale] = fetched.ps[locale]

(***************************************************************************)
(* C29.  The statistics folded from the events of the engine are           *)
(* consistent at every moment: totalRecords = successfulRecords +          *)
(* failedRecords = the sum of the totals of the models; for each model     *)
(* total = success + error = the number of ids in processedRecordIds; and  *)
(* totalModels is the number of models registered.                         *)
(***************************************************************************)
RECURSIVE SumOfTotals(_, _)
SumOfTotals(modelStats, ids) ==
  IF ids = {} THEN 0
  ELSE LET m == CHOOSE x \in ids : TRUE
       IN  modelStats[m].total + SumOfTotals(modelStats, ids \ {m})

C29_StatisticsAddUp ==
  /\ statsRef.totalRecords = statsRef.successfulRecords + statsRef.failedRecords
  /\ statsRef.totalRecords = SumOfTotals(statsRef.modelStats, DOMAIN statsRef.modelStats)
  /\ \A m \in DOMAIN statsRef.modelStats :
       /\ statsRef.modelStats[m].total =
            statsRef.modelStats[m].success + statsRef.modelStats[m].error
       /\ statsRef.modelStats[m].total =
            Cardinality(statsRef.modelStats[m].processedRecordIds)
  /\ statsRef.totalModels = Cardinality(DOMAIN statsRef.modelStats)

\* two models are registered, and records of both kinds were counted
C29_Witness ==
  /\ statsRef.totalModels = 2
  /\ statsRef.totalRecords = 3
  /\ statsRef.successfulRecords = 2
  /\ statsRef.failedRecords = 1
  /\ \A m \in DOMAIN statsRef.modelStats : statsRef.modelStats[m].total >= 1

(***************************************************************************)
(* C30.  Within one run the progress values of the events the engine       *)
(* emits, one after the other, never decrease, an event that ends the run  *)
(* by abort included; the percentage on screen never moves backwards       *)
(* during a run.                                                           *)
(***************************************************************************)
C30_ProgressNeverDecreases ==
  /\ [](\A a, b \in DOMAIN emitted :
          (a < b /\ emitted[a].progress # NoProgress /\ emitted[b].progress # NoProgress)
            => emitted[a].progress <= emitted[b].progress)
  /\ [][(isProcessing /\ emitted' # emitted /\ emitted # <<>>)
          => progressPercentage' >= progressPercentage]_vars

====
